---- MODULE Spec2Model ----
(***************************************************************************)
(* Model of the editor extension bridge: ExtensionAPI (common/api.py) and  *)
(* the default extension (default.py).                                     *)
(*                                                                         *)
(* Encodings.  A Python str is a sequence of tokens (each token a TLA+     *)
(* string); the characters the code inspects (" ", "\n", "/") are always   *)
(* tokens of their own, so "" is <<>> and concatenation is \o.  An         *)
(* Optional value is None == <<>> or Some(v) == <<v>>.  The api object is  *)
(* a function from the names of the attributes that are set to their       *)
(* values.                                                                 *)
(***************************************************************************)
EXTENDS Integers, Sequences, FiniteSets, TLC

VARIABLES
    pc,         \* position of the invocation (see the actions)
    api,        \* the ExtensionAPI object: attribute name -> value
    events,     \* the records written by _dump, in order (the wire)
    sites,      \* history: for each event, the statement that emitted it
    raised,     \* the exception that escaped, "" while none has
    context,    \* extension's local context
    messages,   \* extension's local messages
    thinking,   \* call_llm's local thinking
    consumed,   \* history: the chunks the stream has yielded so far
    payload     \* history: the kwargs the host passed to load

vars == <<pc, api, events, sites, raised, context, messages, thinking, consumed,
          payload>>

----------------------------------------------------------------------------
(* Bounds *)

\* chunks per stream in a whole invocation
MaxRunChunks == 1
\* chunks per stream when call_llm is explored on its own
MaxStreamChunks == 3
\* events on the wire after which a client of ExtensionAPI makes no further call
MaxApiEvents == 4

----------------------------------------------------------------------------
(* Python values *)

None == <<>>
Some(v) == <<v>>

\* str.join: ''.join of a list of strs with separator sep
RECURSIVE Join(_, _)
Join(sep, strs) ==
    IF Len(strs) = 0 THEN <<>>
    ELSE IF Len(strs) = 1 THEN strs[1]
    ELSE strs[1] \o sep \o Join(sep, Tail(strs))

Whitespace == {" ", "\n", "\t"}

\* str.lstrip / str.rstrip / str.strip with no argument
RECURSIVE LStrip(_)
LStrip(s) ==
    IF Len(s) > 0 /\ s[1] \in Whitespace THEN LStrip(Tail(s)) ELSE s

RECURSIVE RStrip(_)
RStrip(s) ==
    IF Len(s) > 0 /\ s[Len(s)] \in Whitespace
    THEN RStrip(SubSeq(s, 1, Len(s) - 1)) ELSE s

Strip(s) == RStrip(LStrip(s))

\* str.startswith for a one-token prefix
StartsWith(s, tok) == Len(s) > 0 /\ s[1] = tok

\* repr() of a list of strs, as an f-string interpolates it
ListRepr(strs) ==
    <<"[">> \o Join(<<", ">>, [i \in DOMAIN strs |-> <<"'">> \o strs[i] \o <<"'">>])
            \o <<"]">>

----------------------------------------------------------------------------
(* common/api.py *)

TAGS == [think |-> "collapse", meta |-> "metadata"]

File(path, repo_path) == [path |-> path, repo_path |-> repo_path]

Message(m) == [role |-> m.role, content |-> m.content]

to_dict(m) == [role |-> m.role, content |-> m.content]

\* The assignments of load, in order.  kind: "req" kwargs[key],
\* "get" kwargs.get(key, None), "in" a value built only if key in kwargs.
LoadOrder == <<
    [attr |-> "current_file_content", key |-> "current_file_content", kind |-> "req"],
    [attr |-> "selection",            key |-> "selection",            kind |-> "req"],
    [attr |-> "cursor_row",           key |-> "cursor_row",           kind |-> "req"],
    [attr |-> "cursor_column",        key |-> "cursor_column",        kind |-> "req"],
    [attr |-> "api_key",              key |-> "api_key",              kind |-> "req"],
    [attr |-> "api_url",              key |-> "api_url",              kind |-> "req"],
    [attr |-> "prompt",               key |-> "prompt",               kind |-> "req"],
    [attr |-> "terminal_history",     key |-> "terminal_history",     kind |-> "get"],
    [attr |-> "terminal_snapshot",    key |-> "terminal_snapshot",    kind |-> "get"],
    [attr |-> "repo_path",            key |-> "repo_path",            kind |-> "req"],
    [attr |-> "current_file",         key |-> "current_file",         kind |-> "req"],
    [attr |-> "edit_file",            key |-> "edit_file",            kind |-> "in"],
    [attr |-> "repo_files",           key |-> "repo",                 kind |-> "req"],
    [attr |-> "opened_files",         key |-> "opened_files",         kind |-> "req"],
    [attr |-> "chat_history",         key |-> "chat_history",         kind |-> "req"] >>

\* the right-hand side of one assignment of load
LoadValue(step, kwargs, obj) ==
    LET v == kwargs[step.key] IN
    CASE step.attr = "current_file" -> File(v, obj.repo_path)
      [] step.attr = "edit_file" ->
            IF step.key \in DOMAIN kwargs THEN Some(File(v, obj.repo_path)) ELSE None
      [] step.attr \in {"repo_files", "opened_files"} ->
            [i \in DOMAIN v |-> File(v[i], obj.repo_path)]
      [] step.attr = "chat_history" -> [i \in DOMAIN v |-> Message(v[i])]
      [] step.kind = "get" ->
            IF step.key \in DOMAIN kwargs THEN Some(v) ELSE None
      [] OTHER -> v

\* load from assignment i on: the object and the exception that ends it
RECURSIVE LoadFrom(_, _, _)
LoadFrom(i, kwargs, obj) ==
    IF i > Len(LoadOrder)
    THEN [obj |-> ("_blocks" :> <<>>) @@ obj, raised |-> ""]
    ELSE LET step == LoadOrder[i] IN
         IF step.kind = "req" /\ step.key \notin DOMAIN kwargs
         THEN [obj |-> obj, raised |-> "KeyError: " \o step.key]
         ELSE LoadFrom(i + 1, kwargs,
                       (step.attr :> LoadValue(step, kwargs, obj)) @@ obj)

\* a fresh ExtensionAPI(): no attribute is set
NewApi == [a \in {} |-> None]

\* load reading the selection with kwargs.get('selection', None)
load_selection_optional(kwargs) ==
    LoadFrom(1, kwargs @@ ("selection" :> None), NewApi)

load(kwargs) == LoadFrom(1, kwargs, NewApi)

\* what _dump prints for each method
PushChatEvent(content) == [method |-> "push_chat", content |-> content]
LogEvent(content) == [method |-> "log", content |-> content]
TerminateEvent == [method |-> "terminate_chat"]
ApplyDiffEvent(patch, matches) ==
    [method |-> "apply_diff", patch |-> patch, matches |-> matches]

----------------------------------------------------------------------------
(* The methods of ExtensionAPI, as functions of the run state                *)
(* st = [obj, events, sites, raised]: the api object, the wire, the history  *)
(* of emitting statements, and the exception in flight ("" if none).         *)

_dump(st, event, site) ==
    [st EXCEPT !.events = Append(@, event), !.sites = Append(@, site)]

push_to_chat(st, content, site) == _dump(st, PushChatEvent(content), site)

log(st, content, site) == _dump(st, LogEvent(content), site)

terminate_chat(st, site) == _dump(st, TerminateEvent, site)

apply_diff(st, patch, matches, site) == _dump(st, ApplyDiffEvent(patch, matches), site)

OpenTag(tag) == <<"<" \o tag \o ">">>
CloseTag(tag) == <<"</" \o tag \o ">">>

\* start_block with TAGS.get(type_, type_): an unknown type is its own tag
start_block_open_ended(st, type_) ==
    LET tag == IF type_ \in DOMAIN TAGS THEN TAGS[type_] ELSE type_
        pushed == push_to_chat(st, OpenTag(tag), "start_block")
    IN  [pushed EXCEPT !.obj._blocks = Append(@, tag)]

start_block(st, type_) ==
    IF type_ \notin DOMAIN TAGS
    THEN [st EXCEPT !.raised = "KeyError: " \o type_]
    ELSE LET tag == TAGS[type_]
             pushed == push_to_chat(st, OpenTag(tag), "start_block")
         IN  [pushed EXCEPT !.obj._blocks = Append(@, tag)]

\* end_block popping the oldest block, pop(0), instead of the newest
end_block_oldest(st) ==
    IF ~(Len(st.obj._blocks) > 0)
    THEN [st EXCEPT !.raised = "AssertionError"]
    ELSE LET tag == st.obj._blocks[1]
             popped == [st EXCEPT !.obj._blocks = Tail(@)]
         IN  push_to_chat(popped, CloseTag(tag), "end_block")

\* end_block without its assertion, closing a default tag when no block is open
end_block_lenient(st) ==
    IF ~(Len(st.obj._blocks) > 0)
    THEN push_to_chat(st, CloseTag("collapse"), "end_block")
    ELSE LET n == Len(st.obj._blocks)
             tag == st.obj._blocks[n]
             popped == [st EXCEPT !.obj._blocks = SubSeq(@, 1, n - 1)]
         IN  push_to_chat(popped, CloseTag(tag), "end_block")

end_block(st) ==
    IF ~(Len(st.obj._blocks) > 0)
    THEN [st EXCEPT !.raised = "AssertionError"]
    ELSE LET n == Len(st.obj._blocks)
             tag == st.obj._blocks[n]
             popped == [st EXCEPT !.obj._blocks = SubSeq(@, 1, n - 1)]
         IN  push_to_chat(popped, CloseTag(tag), "end_block")

\* statement sequencing: g runs only if f raised nothing
Then(st, next) == IF st.raised # "" THEN st ELSE next

\* push_block without its end_block
push_block_unclosed(st, type_, content) ==
    LET s1 == start_block(st, type_)
    IN  Then(s1, push_to_chat(s1, content, "push_block"))

push_block(st, type_, content) ==
    LET s1 == start_block(st, type_)
        s2 == Then(s1, push_to_chat(s1, content, "push_block"))
    IN  Then(s2, end_block(s2))

push_meta(st, content) ==
    LET s1 == start_block(st, "meta")
        s2 == Then(s1, push_to_chat(s1, content, "push_meta"))
    IN  Then(s2, end_block(s2))

----------------------------------------------------------------------------
(* default.py *)

model == <<"anthropic/claude-sonnet-4">>

get_system_prompt(m) ==
    <<"You are an intelligent programmer, powered by ">> \o m \o <<". ...">>

\* the tokens standing for the fence of three backquotes and for one backquote
Fence == "[fence]"
Tick == "[backquote]"

_format_code_block(content) == <<Fence, "\n">> \o content \o <<"\n", Fence>>

_format_section(title, content) == <<"## ">> \o title \o <<"\n", "\n">> \o content

\* File.get_content of a readable file (the file system is the host's)
get_content(f) == <<"<text of ">> \o f.path \o <<">">>

\* bool(s) of an Optional[str]
Truthy(opt) == opt # None /\ opt[1] # <<>>

OpenedFilesMeta(obj) ==
    <<"\n", "<metadata> Opened Files: ">>
        \o ListRepr([i \in DOMAIN obj.opened_files |-> obj.opened_files[i].path])
        \o <<" </metadata>", "\n">>

CurrentFileMeta(obj) ==
    <<"\n", "<metadata> Current File: ">> \o obj.current_file.path
        \o <<" </metadata>", "\n">>

OtherFilesSection(obj) ==
    _format_section(<<"Other relevant files">>,
        Join(<<"\n", "\n">>,
             [i \in DOMAIN obj.opened_files |->
                 <<"Path: ", Tick>> \o obj.opened_files[i].path \o <<Tick, "\n", "\n">>
                     \o _format_code_block(get_content(obj.opened_files[i]))]))

CurrentFileSection(obj) ==
    _format_section(<<"Current File">>,
        <<"Here is the file I'm looking at (", Tick>> \o obj.current_file.path
            \o <<Tick, "):", "\n", "\n">> \o _format_code_block(obj.current_file_content))

SelectionSection(obj) ==
    _format_section(<<"Selection">>,
        <<"This is the code snippet that I'm referring to", "\n", "\n">>
            \o _format_code_block(obj.selection[1]))

\* HasSelection without the strip() of line 78
HasSelection_unstripped(obj) == Truthy(obj.selection)

HasSelection(obj) == Truthy(obj.selection) /\ Strip(obj.selection[1]) # <<>>

\* build_context; unreadable is the set of paths open() fails on.
\* Returns the run state and the context string.
build_context(st, unreadable) ==
    LET obj == st.obj
        hasOpened == Len(obj.opened_files) > 0
        readFails == hasOpened /\ \E i \in DOMAIN obj.opened_files :
                         obj.opened_files[i].path \in unreadable
        c1 == IF hasOpened THEN <<OtherFilesSection(obj)>> ELSE <<>>
        s1 == push_to_chat(st, OpenedFilesMeta(obj), "build_context:68")
        c2 == Append(c1, CurrentFileSection(obj))
        s2 == push_to_chat(s1, CurrentFileMeta(obj), "build_context:76")
        c3 == IF HasSelection(obj) THEN Append(c2, SelectionSection(obj)) ELSE c2
    IN  IF readFails
        THEN [st |-> [st EXCEPT !.raised = "FileNotFoundError"], context |-> <<>>]
        ELSE [st |-> s2, context |-> Join(<<"\n", "\n">>, c3)]

\* extension, lines 137-152: the message list
\* IsDirective testing the raw prompt instead of the stripped one
IsDirective_unstripped(obj) == StartsWith(obj.prompt, "/")

IsDirective(obj) == StartsWith(Strip(obj.prompt), "/")

BuildMessages(obj, ctx) ==
    LET history == [i \in DOMAIN obj.chat_history |-> to_dict(obj.chat_history[i])]
        system == [role |-> "system", content |-> get_system_prompt(model)]
        user == [role |-> "user", content |-> obj.prompt]
    IN  IF IsDirective(obj)
        THEN <<system>> \o history \o <<user>>
        ELSE <<system, [role |-> "user", content |-> ctx]>> \o history \o <<user>>

\* extension, lines 154-157: the three log calls around the join
LogState(st, msgs) ==
    LET s1 == log(st, <<"messages ", ToString(Len(msgs))>>, "extension:154")
        s2 == log(s1, <<"prompt ">> \o st.obj.prompt, "extension:155")
    IN  IF st.obj.terminal_snapshot = None
        THEN [s2 EXCEPT !.raised = "TypeError"]
        ELSE log(s2, <<"## Terminal ">> \o Join(<<"\n">>, st.obj.terminal_snapshot[1]),
                 "extension:157")

\* call_llm, lines 107-122: one iteration of the loop over the stream.
\* Returns the run state and the new value of thinking.
UsageMeta(usage) ==
    <<"\n", "<metadata> number of tokens used in prompt: ",
      ToString(usage.prompt_tokens), " model: ">> \o model \o <<" </metadata>", "\n">>

\* OnReasoning opening a block for every reasoning delta
OnReasoning_reopens(st, th, chunk) ==
    IF Truthy(chunk.reasoning)
    THEN LET s1 == push_to_chat(st, <<"<collapse>">>, "call_llm:110")
         IN  [st |-> push_to_chat(s1, chunk.reasoning[1], "call_llm:112"), thinking |-> TRUE]
    ELSE [st |-> st, thinking |-> th]

OnReasoning(st, th, chunk) ==
    IF Truthy(chunk.reasoning)
    THEN LET s1 == IF ~th THEN push_to_chat(st, <<"<collapse>">>, "call_llm:110") ELSE st
         IN  [st |-> push_to_chat(s1, chunk.reasoning[1], "call_llm:112"), thinking |-> TRUE]
    ELSE [st |-> st, thinking |-> th]

\* OnContent without the close tag of lines 115-117
OnContent_no_close(st, th, chunk) ==
    IF Truthy(chunk.content)
    THEN [st |-> push_to_chat(st, chunk.content[1], "call_llm:118"), thinking |-> FALSE]
    ELSE [st |-> st, thinking |-> th]

OnContent(st, th, chunk) ==
    IF Truthy(chunk.content)
    THEN LET s1 == IF th THEN push_to_chat(st, <<"</collapse>">>, "call_llm:116") ELSE st
         IN  [st |-> push_to_chat(s1, chunk.content[1], "call_llm:118"), thinking |-> FALSE]
    ELSE [st |-> st, thinking |-> th]

\* OnUsage leaving THINKING as it reports the usage
OnUsage_resets_mode(st, th, chunk) ==
    IF chunk.usage # None
    THEN [st |-> push_to_chat(st, UsageMeta(chunk.usage[1]), "call_llm:122"),
          thinking |-> FALSE]
    ELSE [st |-> st, thinking |-> th]

\* OnUsage with line 124 indented into the usage branch
OnUsage_terminates(st, th, chunk) ==
    IF chunk.usage # None
    THEN [st |-> terminate_chat(push_to_chat(st, UsageMeta(chunk.usage[1]), "call_llm:122"),
                                "call_llm:124"),
          thinking |-> th]
    ELSE [st |-> st, thinking |-> th]

OnUsage(st, th, chunk) ==
    IF chunk.usage # None
    THEN [st |-> push_to_chat(st, UsageMeta(chunk.usage[1]), "call_llm:122"), thinking |-> th]
    ELSE [st |-> st, thinking |-> th]

\* OnChunk handling the content before the reasoning
OnChunk_content_first(st, th, chunk) ==
    LET r1 == OnContent(st, th, chunk)
        r2 == OnReasoning(r1.st, r1.thinking, chunk)
    IN  OnUsage(r2.st, r2.thinking, chunk)

OnChunk(st, th, chunk) ==
    LET r1 == OnReasoning(st, th, chunk)
        r2 == OnContent(r1.st, r1.thinking, chunk)
    IN  OnUsage(r2.st, r2.thinking, chunk)

----------------------------------------------------------------------------
(* Inputs: the host's payload, the file system, the upstream stream *)

PathA == <<"a.py">>
PathB == <<"b.py">>

Selections == {None, Some(<<>>), Some(<<" ", "\n">>), Some(<<" ", "x = 1", "\n">>)}

Prompts == { <<"explain", " ", "this">>,
             <<"/", "explain", " ", "this">>,
             <<" ", "/", "fix", " ", "a", "/", "b", "\n">> }

OpenedLists == {<<>>, <<PathA>>, <<PathA, PathB>>}

Histories == { <<>>,
               << [role |-> "user", content |-> <<"hi">>],
                  [role |-> "assistant", content |-> <<"hello">>] >> }

Payload(sel, prompt, opened, history) ==
    [ current_file_content |-> <<"print(1)">>,
      selection            |-> sel,
      cursor_row           |-> 0,
      cursor_column        |-> 0,
      api_key              |-> <<"sk-key">>,
      api_url              |-> <<"https://host/api">>,
      prompt               |-> prompt,
      terminal_history     |-> <<"$ ls">>,
      terminal_snapshot    |-> << <<"$ ls">>, <<"main.py">> >>,
      repo_path            |-> <<"/repo">>,
      current_file         |-> <<"main.py">>,
      edit_file            |-> <<"main.py">>,
      repo                 |-> << <<"main.py">>, PathA, PathB >>,
      opened_files         |-> opened,
      chat_history         |-> history ]

Drop(kwargs, keys) == [k \in DOMAIN kwargs \ keys |-> kwargs[k]]

TypicalPayload ==
    Payload(Some(<<" ", "x = 1", "\n">>), <<"explain", " ", "this">>, <<PathA>>, <<>>)

PayloadKeys == DOMAIN TypicalPayload

FullPayloads ==
    { Payload(sel, p, o, h) :
        sel \in Selections, p \in Prompts, o \in OpenedLists, h \in Histories }

\* every full payload, each also without its terminal_snapshot, and the
\* typical payload with any one key or all three optional keys left out
Payloads ==
    FullPayloads
        \cup { Drop(kw, {"terminal_snapshot"}) : kw \in FullPayloads }
        \cup { Drop(TypicalPayload, {k}) : k \in PayloadKeys }
        \cup { Drop(TypicalPayload, {"terminal_history", "terminal_snapshot", "edit_file"}) }

Reasonings == {None, Some(<<>>), Some(<<"Let's ">>)}
Contents == {None, Some(<<>>), Some(<<"Answer: ">>)}
Usages == {None, Some([prompt_tokens |-> 10])}

Chunk(r, c, u) == [reasoning |-> r, content |-> c, usage |-> u]

Chunks == { Chunk(r, c, u) : r \in Reasonings, c \in Contents, u \in Usages }

\* the stream of the specification's scenario
Scenario == << Chunk(Some(<<"Let's ">>), None, None),
               Chunk(Some(<<"think">>), None, None),
               Chunk(None, Some(<<"Answer: ">>), None),
               Chunk(None, Some(<<"42">>), None),
               Chunk(None, None, Some([prompt_tokens |-> 10])) >>

ScenarioChunks == { Scenario[i] : i \in DOMAIN Scenario }

IsPrefix(s, t) == Len(s) <= Len(t) /\ s = SubSeq(t, 1, Len(s))

\* what a client of the API passes
BlockTypes == {"think", "meta", "note"}
ApiContents == { <<"hi">>, <<"</collapse>">> }

----------------------------------------------------------------------------
(* The invocation *)

St == [obj |-> api, events |-> events, sites |-> sites, raised |-> raised]

Commit(st) ==
    /\ api' = st.obj
    /\ events' = st.events
    /\ sites' = st.sites
    /\ raised' = st.raised

Init ==
    /\ pc = "load"
    /\ api = NewApi
    /\ events = <<>>
    /\ sites = <<>>
    /\ raised = ""
    /\ context = <<>>
    /\ messages = <<>>
    /\ thinking = FALSE
    /\ consumed = <<>>
    /\ payload = NewApi

\* api = ExtensionAPI().load(**payload)
Load ==
    /\ pc = "load"
    /\ \E kwargs \in Payloads :
         LET r == load(kwargs) IN
         /\ api' = r.obj
         /\ raised' = r.raised
         /\ pc' = IF r.raised = "" THEN "extension" ELSE "failed"
         /\ payload' = kwargs
    /\ UNCHANGED <<events, sites, context, messages, thinking, consumed>>

\* extension, line 135
BuildContext ==
    /\ pc = "extension"
    /\ \E unreadable \in SUBSET {PathB} :
         LET r == build_context(St, unreadable) IN
         /\ Commit(r.st)
         /\ context' = r.context
         /\ pc' = IF r.st.raised = "" THEN "messages" ELSE "failed"
    /\ UNCHANGED <<messages, thinking, consumed, payload>>

\* extension, lines 137-152
MakeMessages ==
    /\ pc = "messages"
    /\ messages' = BuildMessages(api, context)
    /\ pc' = "log"
    /\ UNCHANGED <<api, events, sites, raised, context, thinking, consumed, payload>>

\* extension, lines 154-157
Log ==
    /\ pc = "log"
    /\ LET st == LogState(St, messages) IN
         /\ Commit(st)
         /\ pc' = IF st.raised = "" THEN "call_llm" ELSE "failed"
    /\ UNCHANGED <<context, messages, thinking, consumed, payload>>

\* call_llm, lines 90-105: the request is made; it may be refused
CreateStream ==
    /\ pc = "call_llm"
    /\ \E established \in BOOLEAN :
         /\ pc' = IF established THEN "stream" ELSE "failed"
         /\ raised' = IF established THEN "" ELSE "APIConnectionError"
         /\ thinking' = IF established THEN FALSE ELSE thinking
    /\ UNCHANGED <<api, events, sites, context, messages, consumed, payload>>

\* call_llm, lines 106-122: the stream yields one more chunk
NextChunk(bound) ==
    /\ pc = "stream"
    /\ \E chunk \in Chunks \cup ScenarioChunks :
         /\ \/ chunk \in Chunks /\ Len(consumed) < bound
            \/ IsPrefix(Append(consumed, chunk), Scenario)
         /\ LET r == OnChunk(St, thinking, chunk) IN
              /\ Commit(r.st)
              /\ thinking' = r.thinking
         /\ consumed' = Append(consumed, chunk)
    /\ UNCHANGED <<pc, context, messages, payload>>

\* call_llm, line 124: the stream is exhausted
StreamEnd ==
    /\ pc = "stream"
    /\ Commit(terminate_chat(St, "call_llm:124"))
    /\ pc' = "done"
    /\ UNCHANGED <<context, messages, thinking, consumed, payload>>

\* call_llm, line 106: the iteration raises instead of yielding
StreamInterrupted ==
    /\ pc = "stream"
    /\ raised' = "APIError"
    /\ pc' = "failed"
    /\ UNCHANGED <<api, events, sites, context, messages, thinking, consumed, payload>>

Next ==
    \/ Load
    \/ BuildContext
    \/ MakeMessages
    \/ Log
    \/ CreateStream
    \/ NextChunk(MaxRunChunks)
    \/ StreamEnd
    \/ StreamInterrupted

Spec == Init /\ [][Next]_vars

----------------------------------------------------------------------------
(* call_llm on its own: entered after the typical payload was loaded, its   *)
(* context built and the state logged, with longer streams.                 *)

AtCallLlm(kwargs) ==
    LET l == load(kwargs)
        b == build_context([obj |-> l.obj, events |-> <<>>, sites |-> <<>>,
                            raised |-> ""], {})
        m == BuildMessages(l.obj, b.context)
    IN  [st |-> LogState(b.st, m), context |-> b.context, messages |-> m]

BridgeInit ==
    LET e == AtCallLlm(TypicalPayload) IN
    /\ pc = "call_llm"
    /\ api = e.st.obj
    /\ events = e.st.events
    /\ sites = e.st.sites
    /\ raised = e.st.raised
    /\ context = e.context
    /\ messages = e.messages
    /\ thinking = FALSE
    /\ consumed = <<>>
    /\ payload = TypicalPayload

BridgeNext ==
    \/ CreateStream
    \/ NextChunk(MaxStreamChunks)
    \/ StreamEnd
    \/ StreamInterrupted

BridgeSpec == BridgeInit /\ [][BridgeNext]_vars

----------------------------------------------------------------------------
(* A client of ExtensionAPI calling its methods in any order after load.    *)
(* An exception that a method raises ends the client.                       *)

ApiInit ==
    /\ pc = "client"
    /\ api = load(TypicalPayload).obj
    /\ events = <<>>
    /\ sites = <<>>
    /\ raised = ""
    /\ context = <<>>
    /\ messages = <<>>
    /\ thinking = FALSE
    /\ consumed = <<>>
    /\ payload = TypicalPayload

ClientCalls == pc = "client" /\ Len(events) < MaxApiEvents

Return(st) ==
    /\ Commit(st)
    /\ pc' = IF st.raised = "" THEN "client" ELSE "failed"
    /\ UNCHANGED <<context, messages, thinking, consumed, payload>>

CallStartBlock ==
    /\ ClientCalls
    /\ \E t \in BlockTypes : Return(start_block(St, t))

CallEndBlock ==
    /\ ClientCalls
    /\ Return(end_block(St))

CallPushBlock ==
    /\ ClientCalls
    /\ \E t \in BlockTypes, c \in ApiContents : Return(push_block(St, t, c))

CallPushMeta ==
    /\ ClientCalls
    /\ \E c \in ApiContents : Return(push_meta(St, c))

CallPushToChat ==
    /\ ClientCalls
    /\ \E c \in ApiContents : Return(push_to_chat(St, c, "client"))

CallApplyDiff ==
    /\ ClientCalls
    /\ Return(apply_diff(St, <<"+x">>, << <<0, 0>> >>, "client"))

CallLog ==
    /\ ClientCalls
    /\ Return(log(St, <<"debug">>, "client"))

CallTerminateChat ==
    /\ ClientCalls
    /\ Return(terminate_chat(St, "client"))

ApiNext ==
    \/ CallStartBlock
    \/ CallEndBlock
    \/ CallPushBlock
    \/ CallPushMeta
    \/ CallPushToChat
    \/ CallApplyDiff
    \/ CallLog
    \/ CallTerminateChat

ApiSpec == ApiInit /\ [][ApiNext]_vars

----------------------------------------------------------------------------
(* Reading the wire *)

IsPushChat(e) == e.method = "push_chat"
IsTerminate(e) == e.method = "terminate_chat"
IsOpenCollapse(e) == IsPushChat(e) /\ e.content = <<"<collapse>">>
IsCloseCollapse(e) == IsPushChat(e) /\ e.content = <<"</collapse>">>

\* the events up to and including the k-th that satisfy Test
Indices(k, Test(_)) == { i \in 1..k : Test(events[i]) }

\* '<collapse>' events not yet followed by their '</collapse>' after k events
OpenCollapses(k) ==
    Cardinality(Indices(k, IsOpenCollapse)) - Cardinality(Indices(k, IsCloseCollapse))

TerminateIndices == Indices(Len(events), IsTerminate)

\* the tag a start_block event opened, read back from its content
OpenedTag(e) == CHOOSE t \in {TAGS[k] : k \in DOMAIN TAGS} : e.content = OpenTag(t)

\* the tags opened by start_block and not yet closed by end_block after the
\* first k events, oldest first, replayed from the history alone
RECURSIVE OpenAfter(_)
OpenAfter(k) ==
    IF k = 0 THEN <<>>
    ELSE LET before == OpenAfter(k - 1) IN
         CASE sites[k] = "start_block" -> Append(before, OpenedTag(events[k]))
           [] sites[k] = "end_block" -> SubSeq(before, 1, Len(before) - 1)
           [] OTHER -> before

EndBlockIndices == { i \in DOMAIN events : sites[i] = "end_block" }

----------------------------------------------------------------------------
(* C1 *)

\* C1: no block is open at the moment terminate_chat is emitted: the
\* BlockStack is empty and every '<collapse>' emitted before it has been
\* followed by its '</collapse>', also when the stream ends in THINKING.
C1_NoOpenBlockAtTerminate ==
    \A i \in TerminateIndices :
        /\ api._blocks = <<>>
        /\ OpenCollapses(i) = 0

----------------------------------------------------------------------------
(* C2 *)

\* C2: every close tag that end_block emits names the tag most recently
\* opened by start_block and not yet closed, which is the top of the
\* BlockStack; the BlockStack is the stack of such tags.
C2_CloseNamesLastOpened ==
    /\ \A i \in EndBlockIndices :
          LET open == OpenAfter(i - 1) IN
          /\ Len(open) > 0
          /\ events[i] = PushChatEvent(CloseTag(open[Len(open)]))
    /\ api._blocks = OpenAfter(Len(events))

\* a close tag was emitted while two different tags were open
C2_Witness ==
    \E i \in EndBlockIndices :
        LET open == OpenAfter(i - 1) IN
        /\ Len(open) >= 2
        /\ open[Len(open)] # open[Len(open) - 1]

----------------------------------------------------------------------------
(* Reading one iteration of call_llm's loop *)

\* a step in which the stream yielded a chunk
ChunkStep == consumed' # consumed

\* the chunk of that step, and the events the step put on the wire
StepChunk == consumed'[Len(consumed')]
StepEvents == SubSeq(events', Len(events) + 1, Len(events'))

HasText(opt) == opt # None /\ Len(opt[1]) > 0

Positions(evs, Test(_)) == { k \in DOMAIN evs : Test(evs[k]) }

\* every event of evs that satisfies Test is directly followed by text
FollowedBy(evs, Test(_), text) ==
    \A k \in Positions(evs, Test) :
        k < Len(evs) /\ evs[k + 1] = PushChatEvent(text)

MetadataHeads == { "<metadata> Opened Files: ", "<metadata> Current File: ",
                   "<metadata> number of tokens used in prompt: " }

IsMetadata(e) ==
    /\ IsPushChat(e)
    /\ Len(e.content) >= 2
    /\ e.content[2] \in MetadataHeads

IsTagOrMetadata(e) == IsOpenCollapse(e) \/ IsCloseCollapse(e) \/ IsMetadata(e)

HasToken(str, tok) == \E k \in DOMAIN str : str[k] = tok

----------------------------------------------------------------------------
(* C3 *)

\* C3 (as stated): '<collapse>' is emitted iff a delta with non-empty
\* reasoning arrives in PLAIN, directly before that reasoning; '</collapse>'
\* is emitted iff a delta with non-empty content arrives in THINKING,
\* directly before that content; a reasoning delta in THINKING and a content
\* delta in PLAIN emit their text with no tag event.
C3_TagsOnArrivalMode ==
    [][ChunkStep =>
        LET r == HasText(StepChunk.reasoning)
            c == HasText(StepChunk.content)
            opens == Positions(StepEvents, IsOpenCollapse)
            closes == Positions(StepEvents, IsCloseCollapse)
        IN  /\ (opens # {}) <=> (r /\ ~thinking)
            /\ r => FollowedBy(StepEvents, IsOpenCollapse, StepChunk.reasoning[1])
            /\ (closes # {}) <=> (c /\ thinking)
            /\ c => FollowedBy(StepEvents, IsCloseCollapse, StepChunk.content[1])
            /\ (r /\ thinking) => opens = {}
            /\ (c /\ ~thinking) => (opens = {} /\ closes = {})
    ]_vars

\* C3 (amended): as stated for '<collapse>'; '</collapse>' is emitted iff the
\* delta has non-empty content and the bridge is in THINKING when the content
\* is handled, that is, it was in THINKING on arrival or the same delta also
\* carries non-empty reasoning.  A content delta in PLAIN emits no tag event
\* only if it carries no reasoning.
C3_TagsOnModeTransition ==
    [][ChunkStep =>
        LET r == HasText(StepChunk.reasoning)
            c == HasText(StepChunk.content)
            opens == Positions(StepEvents, IsOpenCollapse)
            closes == Positions(StepEvents, IsCloseCollapse)
        IN  /\ (opens # {}) <=> (r /\ ~thinking)
            /\ Cardinality(opens) <= 1
            /\ r => FollowedBy(StepEvents, IsOpenCollapse, StepChunk.reasoning[1])
            /\ (closes # {}) <=> (c /\ (thinking \/ r))
            /\ Cardinality(closes) <= 1
            /\ c => FollowedBy(StepEvents, IsCloseCollapse, StepChunk.content[1])
            /\ (r /\ thinking) => opens = {}
            /\ (c /\ ~thinking /\ ~r) => (opens = {} /\ closes = {})
            /\ r => \E k \in DOMAIN StepEvents :
                       StepEvents[k] = PushChatEvent(StepChunk.reasoning[1])
            /\ c => \E k \in DOMAIN StepEvents :
                       StepEvents[k] = PushChatEvent(StepChunk.content[1])
    ]_vars

\* a delta carrying both reasoning and content has been handled after the
\* bridge was in PLAIN, and its '</collapse>' is on the wire
C3_Witness ==
    /\ Len(consumed) = 1
    /\ HasText(consumed[1].reasoning)
    /\ HasText(consumed[1].content)
    /\ Indices(Len(events), IsCloseCollapse) # {}

----------------------------------------------------------------------------
(* C4 *)

CallLlmSites == { "call_llm:110", "call_llm:112", "call_llm:116",
                  "call_llm:118", "call_llm:122", "call_llm:124" }

\* the events call_llm emitted, in order
RECURSIVE CallLlmEvents(_)
CallLlmEvents(k) ==
    IF k = 0 THEN <<>>
    ELSE IF sites[k] \in CallLlmSites
         THEN Append(CallLlmEvents(k - 1), events[k])
         ELSE CallLlmEvents(k - 1)

IsText(e) == IsPushChat(e) /\ ~IsTagOrMetadata(e)

\* the non-empty texts of a sequence of chunks as events, reasoning before
\* content within a chunk
RECURSIVE TextsOf(_)
TextsOf(chunks) ==
    IF chunks = <<>> THEN <<>>
    ELSE LET ch == chunks[1] IN
         (IF HasText(ch.reasoning) THEN <<PushChatEvent(ch.reasoning[1])>> ELSE <<>>)
         \o (IF HasText(ch.content) THEN <<PushChatEvent(ch.content[1])>> ELSE <<>>)
         \o TextsOf(Tail(chunks))

ScenarioEvents ==
    << PushChatEvent(<<"<collapse>">>),
       PushChatEvent(<<"Let's ">>),
       PushChatEvent(<<"think">>),
       PushChatEvent(<<"</collapse>">>),
       PushChatEvent(<<"Answer: ">>),
       PushChatEvent(<<"42">>),
       PushChatEvent(<<"\n", "<metadata> number of tokens used in prompt: ", "10",
                       " model: ", "anthropic/claude-sonnet-4", " </metadata>", "\n">>),
       TerminateEvent >>

\* C4: the text events of call_llm are exactly the non-empty reasoning and
\* content texts of the deltas in arrival order, each once, reasoning before
\* content within a delta; terminate_chat follows all of them; the scenario
\* stream yields exactly the scenario's event sequence.
C4_TextsInArrivalOrder ==
    LET out == CallLlmEvents(Len(events)) IN
    /\ SelectSeq(out, IsText) = TextsOf(consumed)
    /\ pc = "done" =>
          /\ Len(out) > 0
          /\ IsTerminate(out[Len(out)])
          /\ SelectSeq(out, IsTerminate) = <<TerminateEvent>>
    /\ (pc = "done" /\ consumed = Scenario) => out = ScenarioEvents

\* the scenario stream was consumed to its end
C4_Witness == pc = "done" /\ consumed = Scenario

----------------------------------------------------------------------------
(* C5 *)

\* C5: terminate_chat is emitted at most once, no event of any method
\* follows it, and a stream exhausted normally ends with exactly one.
C5_TerminateIsLast ==
    /\ Cardinality(TerminateIndices) <= 1
    /\ \A i \in TerminateIndices : i = Len(events)
    /\ pc = "done" => Cardinality(TerminateIndices) = 1

\* a stream that delivered text and usage was exhausted
C5_Witness ==
    /\ pc = "done"
    /\ \E i \in DOMAIN consumed :
          HasText(consumed[i].content) /\ consumed[i].usage # None

----------------------------------------------------------------------------
(* C6 *)

\* C6: if the create call raises, no '<collapse>' has been emitted and the
\* failure is turned into a terminate_chat event, the last on the wire,
\* instead of escaping raw.
C6_CreateFailureTerminates ==
    raised = "APIConnectionError" =>
        /\ Indices(Len(events), IsOpenCollapse) = {}
        /\ Len(events) > 0
        /\ IsTerminate(events[Len(events)])

----------------------------------------------------------------------------
(* C7 *)

\* C7: if the iteration raises after at least one chunk while the bridge is
\* in THINKING, '</collapse>' is emitted before the failure propagates: the
\* wire never ends with an unterminated '<collapse>'; nothing is emitted twice.
C7_InterruptClosesBlock ==
    (raised = "APIError" /\ Len(consumed) >= 1) =>
        /\ OpenCollapses(Len(events)) = 0
        /\ SelectSeq(CallLlmEvents(Len(events)), IsText) = TextsOf(consumed)

----------------------------------------------------------------------------
(* C8 *)

IsUsageMeta(e, usage) ==
    /\ IsMetadata(e)
    /\ e.content[2] = "<metadata> number of tokens used in prompt: "
    /\ HasToken(e.content, ToString(usage.prompt_tokens))
    /\ HasToken(e.content, "anthropic/claude-sonnet-4")

\* C8: a delta with usage statistics emits one metadata push_chat event with
\* the prompt-token count and the model identifier; when it carries no text
\* that is its only event, and the mode and the BlockStack are unchanged.
C8_UsageKeepsState ==
    [][(ChunkStep /\ StepChunk.usage # None) =>
        LET usage == StepChunk.usage[1]
            metas == Positions(StepEvents, IsMetadata)
        IN  /\ Cardinality(metas) = 1
            /\ \A k \in metas : IsUsageMeta(StepEvents[k], usage)
            /\ api'._blocks = api._blocks
            /\ (~HasText(StepChunk.reasoning) /\ ~HasText(StepChunk.content)) =>
                  /\ Len(StepEvents) = 1
                  /\ thinking' = thinking
    ]_vars

\* a delta carrying only usage statistics was handled in THINKING
C8_Witness ==
    /\ Len(consumed) >= 2
    /\ LET last == consumed[Len(consumed)] IN
          /\ last.usage # None
          /\ ~HasText(last.reasoning)
          /\ ~HasText(last.content)
    /\ thinking

----------------------------------------------------------------------------
(* C9 *)

\* the first token of str that is not whitespace is tok
FirstVisibleIs(str, tok) ==
    \E k \in DOMAIN str :
        /\ str[k] = tok
        /\ \A j \in 1..(k - 1) : str[j] \in Whitespace

MessagesBuilt == pc \in {"log", "call_llm", "stream", "done"} \/ messages # <<>>

\* C9: if the trimmed prompt starts with '/', the messages are
\* [system, ...chat_history, user prompt] and none holds the context;
\* otherwise they are [system, user context, ...chat_history, user prompt].
\* The system message is first, the prompt last, the history between them
\* complete and in order, and nothing else is in the list.
C9_MessageRouting ==
    MessagesBuilt =>
        LET n == Len(api.chat_history)
            m == Len(messages)
            first == IF FirstVisibleIs(api.prompt, "/") THEN 2 ELSE 3
        IN  /\ m = n + first
            /\ messages[1].role = "system"
            /\ HasToken(messages[1].content, "anthropic/claude-sonnet-4")
            /\ messages[m] = [role |-> "user", content |-> api.prompt]
            /\ \A i \in 1..n :
                  /\ messages[first - 1 + i].role = api.chat_history[i].role
                  /\ messages[first - 1 + i].content = api.chat_history[i].content
            /\ context # <<>>
            /\ IF first = 2
               THEN \A i \in 1..m : messages[i].content # context
               ELSE messages[2] = [role |-> "user", content |-> context]

\* messages were built for a prompt whose '/' follows leading whitespace,
\* with two messages of history
C9_Witness ==
    /\ pc = "log"
    /\ api.prompt[1] \in Whitespace
    /\ FirstVisibleIs(api.prompt, "/")
    /\ Len(api.chat_history) = 2

----------------------------------------------------------------------------
(* C10 *)

IsOpenedFilesMeta(e) ==
    IsMetadata(e) /\ e.content[2] = "<metadata> Opened Files: "

IsCurrentFileMeta(e) ==
    IsMetadata(e) /\ e.content[2] = "<metadata> Current File: "

ContextReturned == pc \in {"messages", "log", "call_llm", "stream", "done"}

ExactlyOneOfEach ==
    LET n == Len(events)
        opened == Indices(n, IsOpenedFilesMeta)
        current == Indices(n, IsCurrentFileMeta)
    IN  /\ Cardinality(opened) = 1
        /\ Cardinality(current) = 1
        /\ \A i \in opened, j \in current :
              /\ i < j
              /\ HasToken(events[j].content, api.current_file.path[1])
              /\ \A k \in DOMAIN api.opened_files :
                    HasToken(events[i].content, api.opened_files[k].path[1])
              /\ Len(api.opened_files) = 0 =>
                    events[i].content = <<"\n", "<metadata> Opened Files: ", "[", "]",
                                          " </metadata>", "\n">>

\* C10: once build_context has run, the wire holds exactly one metadata event
\* naming the current file and exactly one listing the opened files (an empty
\* list when there are none), the latter first, whatever the selection and
\* the routing.
C10_MetadataAlwaysEmitted ==
    (pc # "load" /\ pc # "extension" /\ "_blocks" \in DOMAIN api) => ExactlyOneOfEach

\* the same, for the invocations in which build_context returned
C10_MetadataWhenFilesReadable ==
    ContextReturned => ExactlyOneOfEach

----------------------------------------------------------------------------
(* C11 *)

Loaded == "_blocks" \in DOMAIN api

BuildContextRan == Loaded /\ pc # "load" /\ pc # "extension"

\* C11: an opened file that cannot be read does not crash build_context: no
\* FileNotFoundError escapes it, and both metadata events (opened files,
\* current file) are on the wire once it has run.
C11_UnreadableFileConfined ==
    BuildContextRan =>
        /\ raised # "FileNotFoundError"
        /\ Indices(Len(events), IsOpenedFilesMeta) # {}
        /\ Indices(Len(events), IsCurrentFileMeta) # {}

----------------------------------------------------------------------------
(* C12 *)

RequiredFields ==
    { "current_file_content", "selection", "cursor_row", "cursor_column",
      "api_key", "api_url", "prompt", "repo_path", "current_file", "repo",
      "opened_files", "chat_history" }

OptionalFields == { "terminal_history", "terminal_snapshot", "edit_file" }

\* a step of load
LoadStep == pc = "load" /\ pc' # "load"

\* C12: load fails with an error naming the field whenever a required field
\* is missing from the payload, and then nothing is emitted and nothing runs
\* afterwards (no model call); with only optional fields missing it succeeds
\* and leaves the BlockStack empty.
C12_MissingFieldFailsLoad ==
    [][ /\ pc # "failed"
        /\ LoadStep =>
              LET missing == RequiredFields \ DOMAIN payload' IN
              IF missing # {}
              THEN /\ pc' = "failed"
                   /\ \E k \in missing : raised' = "KeyError: " \o k
                   /\ events' = <<>>
                   /\ "_blocks" \notin DOMAIN api'
              ELSE /\ pc' = "extension"
                   /\ raised' = ""
                   /\ events' = <<>>
                   /\ "_blocks" \in DOMAIN api'
                   /\ api'._blocks = <<>>
      ]_vars

\* load has failed on a payload without its chat_history, the last field read
C12_Witness ==
    /\ pc = "failed"
    /\ "chat_history" \notin DOMAIN payload
    /\ raised = "KeyError: chat_history"

\* load has succeeded on a payload without any optional field
C12_WitnessOptional ==
    /\ pc = "extension"
    /\ DOMAIN payload = RequiredFields

----------------------------------------------------------------------------
(* C13 *)

\* the titles of the sections of a context string, in order
RECURSIVE TitlesFrom(_, _)
TitlesFrom(str, k) ==
    IF k >= Len(str) THEN <<>>
    ELSE IF str[k] = "## " THEN <<str[k + 1]>> \o TitlesFrom(str, k + 2)
    ELSE TitlesFrom(str, k + 1)

SectionTitles(str) == TitlesFrom(str, 1)

\* the selection is there and has a token that is not whitespace
SelectionVisible ==
    /\ api.selection # None
    /\ \E k \in DOMAIN api.selection[1] : api.selection[1][k] \notin Whitespace

\* C13: the context consists of the sections 'Other relevant files' (iff
\* opened_files is non-empty), 'Current File' (always), 'Selection' (iff the
\* selection is present and not blank), in that order; the selection adds no
\* event: build_context emits its two metadata events only.
C13_ContextSections ==
    ContextReturned =>
        /\ SectionTitles(context) =
              (IF Len(api.opened_files) > 0 THEN <<"Other relevant files">> ELSE <<>>)
              \o <<"Current File">>
              \o (IF SelectionVisible THEN <<"Selection">> ELSE <<>>)
        /\ pc = "messages" => Len(events) = 2

\* build_context returned for a whitespace-only selection with files opened
C13_Witness ==
    /\ pc = "messages"
    /\ api.selection # None
    /\ api.selection[1] # <<>>
    /\ ~SelectionVisible
    /\ Len(api.opened_files) = 2

----------------------------------------------------------------------------
(* C14 *)

\* C14: a terminate_chat event is emitted only when the BlockStack is empty:
\* terminate_chat called with a block open fails with an assertion and emits
\* nothing.
C14_TerminateGuardsOpenBlocks ==
    \A i \in TerminateIndices : OpenAfter(i - 1) = <<>>

----------------------------------------------------------------------------
(* C15 *)

\* C15: while call_llm is in THINKING the BlockStack is ["collapse"], and
\* while it is in PLAIN the BlockStack is empty.
C15_ModeMirroredInBlockStack ==
    pc = "stream" =>
        api._blocks = (IF thinking THEN <<"collapse">> ELSE <<>>)

----------------------------------------------------------------------------
(* C16 *)

StartBlockIndices == { i \in DOMAIN events : sites[i] = "start_block" }

\* C16: end_block on an empty BlockStack fails with an assertion, emits
\* nothing and leaves the stack empty; an end_block that emits its close tag
\* found a block open; so the close tags emitted by end_block never outnumber
\* the open tags emitted by start_block.
C16_EndBlockOnEmptyFails ==
    /\ (Loaded /\ raised = "" /\ api._blocks = <<>>) =>
          LET r == end_block(St) IN
          /\ r.raised = "AssertionError"
          /\ r.events = events
          /\ r.obj._blocks = <<>>
    /\ \A i \in EndBlockIndices : Len(OpenAfter(i - 1)) > 0
    /\ Cardinality(EndBlockIndices) <= Cardinality(StartBlockIndices)
    /\ raised = "AssertionError" =>
          /\ api._blocks = <<>>
          /\ OpenAfter(Len(events)) = <<>>

\* end_block has failed on a stack that an earlier end_block had emptied
C16_Witness ==
    /\ raised = "AssertionError"
    /\ EndBlockIndices # {}

----------------------------------------------------------------------------
(* C17 *)

KnownTags == {"collapse", "metadata"}

\* C17: start_block and push_block with a type other than 'think' or 'meta'
\* fail before emitting an event and without changing the BlockStack; 'think'
\* opens 'collapse' and 'meta' opens 'metadata'; the BlockStack holds no other
\* tag.
C17_ClosedBlockKinds ==
    Loaded =>
        /\ raised = "" => \A t \in BlockTypes :
              LET r == start_block(St, t)
                  b == push_block(St, t, <<"hi">>)
              IN  IF t \in {"think", "meta"}
                  THEN LET tag == IF t = "think" THEN "collapse" ELSE "metadata" IN
                       /\ r.raised = ""
                       /\ r.events = Append(events, PushChatEvent(<<"<" \o tag \o ">">>))
                       /\ r.obj._blocks = Append(api._blocks, tag)
                  ELSE /\ r.raised # "" /\ b.raised # ""
                       /\ r.events = events /\ b.events = events
                       /\ r.obj = api /\ b.obj = api
        /\ \A i \in DOMAIN api._blocks : api._blocks[i] \in KnownTags
        /\ \A i \in StartBlockIndices :
              events[i].content \in { <<"<collapse>">>, <<"<metadata>">> }
        /\ raised = "KeyError: note" => api._blocks = OpenAfter(Len(events))

\* a call with the unknown type failed while a block was open
C17_Witness ==
    /\ raised = "KeyError: note"
    /\ Len(api._blocks) >= 1

----------------------------------------------------------------------------
(* C18 *)

\* C18: an invocation whose payload has no terminal_snapshot does not abort
\* on the absent value: no TypeError escapes extension, which goes on to the
\* model call.
C18_AbsentSnapshotTolerated ==
    (Loaded /\ api.terminal_snapshot = None) =>
        /\ raised # "TypeError"
        /\ pc = "failed" => raised \in {"FileNotFoundError", "APIConnectionError", "APIError"}

----------------------------------------------------------------------------
(* C19 *)

ReasoningIndices == { i \in DOMAIN events : sites[i] = "call_llm:112" }
ContentIndices == { i \in DOMAIN events : sites[i] = "call_llm:118" }

\* C19: every reasoning text is emitted with a collapse block open, every
\* content text with none open; '<collapse>' and '</collapse>' alternate,
\* '<collapse>' first: at most one block is open and none is closed unopened.
C19_TextsInsideTheirBlocks ==
    /\ \A i \in ReasoningIndices : OpenCollapses(i) = 1
    /\ \A i \in ContentIndices : OpenCollapses(i) = 0
    /\ \A k \in 0..Len(events) : OpenCollapses(k) \in {0, 1}

\* two collapse blocks were opened, with content between them
C19_Witness ==
    /\ Cardinality(Indices(Len(events), IsOpenCollapse)) = 2
    /\ ContentIndices # {}

----------------------------------------------------------------------------
(* C20 *)

\* a step of push_block or push_meta: it put their content event on the wire
PushBlockStep ==
    \E k \in (Len(sites) + 1)..Len(sites') : sites'[k] \in {"push_block", "push_meta"}

\* C20: push_block and push_meta with a valid type emit exactly three
\* consecutive push_chat events, the open tag, the content and the matching
\* close tag, and leave the BlockStack as it was, whatever was open.
C20_PushBlockIsBalanced ==
    [][PushBlockStep =>
        /\ Len(StepEvents) = 3
        /\ \E tag \in KnownTags :
              /\ StepEvents[1] = PushChatEvent(<<"<" \o tag \o ">">>)
              /\ StepEvents[3] = PushChatEvent(<<"</" \o tag \o ">">>)
              /\ sites'[Len(sites) + 2] = "push_meta" => tag = "metadata"
        /\ IsPushChat(StepEvents[2])
        /\ StepEvents[2].content \in ApiContents
        /\ api'._blocks = api._blocks
        /\ raised' = ""
    ]_vars

\* push_block or push_meta has run with two blocks already open
C20_Witness ==
    \E i \in DOMAIN events :
        /\ sites[i] \in {"push_block", "push_meta"}
        /\ Len(OpenAfter(i)) = 3

====
